---------------------------- MODULE Spec2Model ----------------------------
(***************************************************************************)
(* A model of the AgenticAIWorkshop2025 agents:                            *)
(*   - weatherAgent/myWeatherAgent2: geocode_city, get_weather,            *)
(*     get_current_time (SpecWeather);                                     *)
(*   - recipeAgent/myRecipeAgent{2,3,4}: get_recipe_details (SpecRecipe),  *)
(*     get_nutrition_data (SpecNutrition), and the four-step               *)
(*     FoodAssistantPipeline with its Streamlit caller (SpecPipeline),     *)
(*     and call_agent invocations running side by side (SpecConcurrent).   *)
(*                                                                         *)
(* Optional values (a dict key that may be absent, Python's None) are      *)
(* sequences of length at most one: <<>> is "absent", <<v>> is "v".        *)
(***************************************************************************)
EXTENDS Integers, Sequences, FiniteSets, TLC

VARIABLES
    \* ---- weather / time agent ----
    wpc,        \* "idle" | "geocoding" | "forecast" | "timeapi" | "done"
    wfn,        \* the tool invoked: "geocode_city" | "get_weather" | "get_current_time"
    wcity,      \* its argument
    wgeoresp,   \* the geocoding service's answer to this invocation
    wresp,      \* the forecast / time service's answer to this invocation
    geo,        \* what the inner geocode_city call produced
    wreqs,      \* the outbound requests issued by this invocation, in order
    wout,       \* the invocation's outcome (returned value or escaped exception)
    \* ---- recipe adapter ----
    rpc,        \* "idle" | "done"
    rstore,     \* the recipes table: a sequence of rows, or unreachable
    rquery,     \* dish_name
    rout,       \* the outcome of get_recipe_details
    \* ---- nutrition adapter ----
    npc,        \* "idle" | "search" | "lookup" | "done" | "hung"
    nver,       \* which module's get_nutrition_data: 2, 3 or 4
    nquery,     \* query
    nsearch,    \* the search endpoint's answer
    nlookup,    \* the product endpoint's answer
    nreqs,      \* the outbound requests issued by this invocation, in order
    nout,       \* the outcome of get_nutrition_data
    \* ---- pipeline ----
    ppc,        \* "idle" | "running" | "completed" | "failed"
    pver,       \* which module's pipeline: 3 or 4
    pidx,       \* index in sub_agents of the step being run
    pphase,     \* "ready" (not yet started) | "started" (instruction resolved, model working)
    pstate,     \* session.state: slot name -> optional text
    pstarted,   \* names of the steps started in this run, in order
    pwrites,    \* <<step name, slot>> for every slot write of this run, in order
    pfinal,     \* final_text of _call_agent_async
    pret,       \* what call_agent gave its caller
    pui,        \* what the Streamlit handler rendered
    pruns,      \* number of pipeline runs started
    \* ---- front-end requests running side by side ----
    csvcs,      \* the InMemorySessionService objects constructed so far
    cruns       \* one record per call_agent invocation, finished ones included

wvars == <<wpc, wfn, wcity, wgeoresp, wresp, geo, wreqs, wout>>
rvars == <<rpc, rstore, rquery, rout>>
nvars == <<npc, nver, nquery, nsearch, nlookup, nreqs, nout>>
pvars == <<ppc, pver, pidx, pphase, pstate, pstarted, pwrites, pfinal, pret, pui, pruns>>
cvars == <<csvcs, cruns>>
vars  == <<wvars, rvars, nvars, pvars, cvars>>

None == <<>>
Some(v) == <<v>>
Get(o, default) == IF o = <<>> THEN default ELSE o[1]

\* Sequences over S of length at most n.
SeqUpTo(S, n) == UNION {[1..k -> S] : k \in 0..n}

(***************************************************************************)
(*                      Outcomes of a tool invocation                      *)
(***************************************************************************)
\* A returned {"status": "success", ...} dictionary.
Success(payload) ==
    [kind |-> "return", exc |-> "", status |-> "success",
     error_message |-> <<>>, payload |-> <<payload>>]
\* A returned {"status": "error", "error_message": msg} dictionary.
Failure(msg) ==
    [kind |-> "return", exc |-> "", status |-> "error",
     error_message |-> msg, payload |-> <<>>]
\* An exception that leaves the function.
Raised(e) ==
    [kind |-> "raise", exc |-> e, status |-> "",
     error_message |-> <<>>, payload |-> <<>>]
NoOutcome ==
    [kind |-> "none", exc |-> "", status |-> "",
     error_message |-> <<>>, payload |-> <<>>]


(***************************************************************************)
(*                 HTTP as the requests library presents it                *)
(***************************************************************************)
HttpStatuses == {200, 404, 500}

\* requests.get raising for a transport failure (both are RequestException).
TransportErrors == {"ConnectionError", "Timeout"}

\* The exception, if any, that requests.get / raise_for_status / .json() raise
\* for a response; "" when the body is JSON and the status is below 400.  All
\* of them are subclasses of requests.RequestException (JSONDecodeError since
\* requests 2.27).
HttpFailure(resp) ==
    IF resp.transport # "ok" THEN resp.transport
    ELSE IF resp.status >= 400 THEN "HTTPError"
    ELSE IF resp.body.shape = "malformed" THEN "JSONDecodeError"
    ELSE ""

NoResp == [transport |-> "none", status |-> 0, body |-> <<>>]

\* Responses of a service whose well-formed bodies are Bodies: a transport
\* failure, an error status (its body is never read), or status 200 with a
\* malformed or well-formed body.
Responses(Bodies, blank) ==
    {[transport |-> t, status |-> 0, body |-> blank] : t \in TransportErrors}
    \cup {[transport |-> "ok", status |-> s, body |-> blank] : s \in HttpStatuses \ {200}}
    \cup {[transport |-> "ok", status |-> 200, body |-> b] : b \in Bodies}

(***************************************************************************)
(*                      weatherAgent: geocode_city                         *)
(***************************************************************************)
MaxHourly == 2

CityNames == {"Paris", "Nonexistent City XYZ"}

\* One entry of the geocoding "results" list; every key may be absent.
CityRecords ==
    {[name |-> Some("Paris"), latitude |-> Some(48), longitude |-> Some(2),
      timezone |-> Some("Europe/Paris")],
     [name |-> None, latitude |-> Some(48), longitude |-> Some(2),
      timezone |-> None]}

GeoBodies ==
    {[shape |-> sh, results |-> None] : sh \in {"malformed", "nondict", "dict"}}
    \cup {[shape |-> "dict", results |-> Some(items)] : items \in SeqUpTo(CityRecords, 1)}

GeoResponses == Responses(GeoBodies, [shape |-> "malformed", results |-> None])

NotFoundMessage(name) == <<"City '", name, "' not found.">>

GeocodeCity(name, resp) ==
    LET f == HttpFailure(resp) IN
    IF f # "" THEN Failure(<<"Geocoding error: ", f>>)
    ELSE IF resp.body.shape # "dict" THEN Raised("AttributeError")
    ELSE LET items == Get(resp.body.results, <<>>) IN
         IF items = <<>> THEN Failure(NotFoundMessage(name))
         ELSE LET city == items[1] IN
              Success([name |-> city.name, latitude |-> city.latitude,
                       longitude |-> city.longitude, timezone |-> city.timezone])

(***************************************************************************)
(*                       weatherAgent: get_weather                         *)
(***************************************************************************)
TimeStamps == {"T1", "T2"}
Humidities == {40, 55}
Temperatures == {0, 100}
WeatherCodes == {0, 95, 7}

EmptyCw == [time |-> None, weathercode |-> None, temperature |-> None, windspeed |-> None]
EmptyHourly == [time |-> <<>>, relativehumidity_2m |-> <<>>]

CurrentWeathers ==
    [time : {None} \cup {Some(t) : t \in TimeStamps \cup {"T3"}},
     weathercode : {None} \cup {Some(c) : c \in WeatherCodes},
     temperature : {None} \cup {Some(c) : c \in Temperatures},
     windspeed : {None, Some("12.5")}]

Hourlies ==
    [time : SeqUpTo(TimeStamps, MaxHourly),
     relativehumidity_2m : SeqUpTo(Humidities, MaxHourly)]

ForecastBlank == [shape |-> "malformed", current_weather |-> None, hourly |-> None]

ForecastBodies ==
    {ForecastBlank, [ForecastBlank EXCEPT !.shape = "nondict"]}
    \cup {[shape |-> "dict", current_weather |-> cw, hourly |-> h] :
            cw \in {None} \cup {Some(c) : c \in CurrentWeathers},
            h \in {None} \cup {Some(x) : x \in Hourlies}}

ForecastResponses == Responses(ForecastBodies, ForecastBlank)

\* tnow in times
InTimes(tnow, times) == tnow # None /\ \E i \in 1..Len(times) : times[i] = tnow[1]

\* times.index(tnow), 1-based
IndexOf(tnow, times) ==
    CHOOSE i \in 1..Len(times) :
        times[i] = tnow[1] /\ \A j \in 1..(i - 1) : times[j] # tnow[1]

\* hums[times.index(tnow)] is out of range
HumidityIndexError(times, hums, tnow) ==
    InTimes(tnow, times) /\ IndexOf(tnow, times) > Len(hums)

\* The humidity picked when no IndexError is raised (None is Python's None).
SelectHumidity(times, hums, tnow) ==
    IF InTimes(tnow, times) THEN Some(hums[IndexOf(tnow, times)])
    ELSE IF hums # <<>> THEN Some(hums[1]) ELSE None

WeatherDesc(code) ==
    CASE code = Some(0) -> "Clear sky"
      [] code = Some(1) -> "Mainly clear"
      [] code = Some(2) -> "Partly cloudy"
      [] code = Some(3) -> "Overcast"
      [] code = Some(45) -> "Fog"
      [] code = Some(48) -> "Depositing rime fog"
      [] code = Some(51) -> "Light drizzle"
      [] code = Some(61) -> "Slight rain"
      [] code = Some(63) -> "Moderate rain"
      [] code = Some(65) -> "Heavy rain"
      [] code = Some(71) -> "Slight snow"
      [] code = Some(73) -> "Moderate snow"
      [] code = Some(75) -> "Heavy snow"
      [] code = Some(95) -> "Thunderstorm"
      [] OTHER -> "Unknown"

\* tc * 9/5 + 32 printed with one decimal, in tenths of a degree (tc an integer).
FahrenheitTenths(tc) == 18 * tc + 320

\* The part of get_weather after a successful geocode_city.
WeatherResult(g, resp) ==
    LET f == HttpFailure(resp) IN
    IF f # "" THEN Failure(<<"Weather lookup failed: ", f>>)
    ELSE IF resp.body.shape # "dict" THEN Raised("AttributeError")
    ELSE LET cw == Get(resp.body.current_weather, EmptyCw)
             hourly == Get(resp.body.hourly, EmptyHourly)
             times == hourly.time
             hums == hourly.relativehumidity_2m
             tnow == cw.time
             tc == cw.temperature
         IN IF HumidityIndexError(times, hums, tnow) THEN Raised("IndexError")
            ELSE IF tc = None THEN Raised("TypeError")
            ELSE Success([name |-> g.payload[1].name,
                          desc |-> WeatherDesc(cw.weathercode),
                          tc |-> 10 * tc[1],
                          tf |-> FahrenheitTenths(tc[1]),
                          humidity |-> SelectHumidity(times, hums, tnow),
                          wind |-> Get(cw.windspeed, "N/A")])

\* A caller that reports the geocoding failure under its own heading.
GeoFailureWrapped(g) == Failure(<<"Weather lookup failed: ">> \o g.error_message)

\* What get_weather / get_current_time return when geocode_city did not succeed.
GeoFailureResult(g) == Failure(g.error_message)

(***************************************************************************)
(*                     weatherAgent: get_current_time                      *)
(***************************************************************************)
\* Strings of the time service, as sequences of tokens so that "+" is \o.
ValidDates == {"2025-06-01"}
ValidTimes == {"12:30:45"}
DateStrings == {<<"2025-06-01">>, <<"06/01/2025">>}
TimeStrings == {<<"12:30:45">>, <<"noon">>}
DateTimeStrings == {<<"2025-06-01", "T", "12:30:45">>, <<"garbage">>, <<>>}

TimeBlank == [shape |-> "malformed", dateTime |-> None, date |-> None, time |-> None]

TimeBodies ==
    {TimeBlank, [TimeBlank EXCEPT !.shape = "nondict"]}
    \cup [shape : {"dict"},
          dateTime : {None} \cup {Some(s) : s \in DateTimeStrings},
          date : {None} \cup {Some(s) : s \in DateStrings},
          time : {None} \cup {Some(s) : s \in TimeStrings}]

TimeResponses == Responses(TimeBodies, TimeBlank)

\* datetime.fromisoformat accepts the string
IsIso(s) ==
    \/ Len(s) = 1 /\ s[1] \in ValidDates
    \/ Len(s) = 3 /\ s[1] \in ValidDates /\ s[2] = "T" /\ s[3] \in ValidTimes

\* dt.strftime("%Y-%m-%d %H:%M:%S (tz)") of the parsed string
FormatTime(s, tz) ==
    <<s[1], " ", IF Len(s) = 3 THEN s[3] ELSE "00:00:00", " (", Get(tz, "None"), ")">>

\* The part of get_current_time after a successful geocode_city.
TimeResult(g, resp) ==
    LET f == HttpFailure(resp)
        tz == g.payload[1].timezone
    IN
    IF f # "" THEN Failure(<<"Time lookup failed: ", f>>)
    ELSE IF resp.body.shape # "dict" THEN Failure(<<"Time parsing failed: ", "AttributeError">>)
    ELSE LET data == resp.body
             truthy == data.dateTime # None /\ data.dateTime[1] # <<>>
         IN IF ~truthy /\ (data.date = None \/ data.time = None)
            THEN Failure(<<"Time parsing failed: ", "TypeError">>)
            ELSE LET dt_str == IF truthy THEN data.dateTime[1]
                               ELSE data.date[1] \o <<"T">> \o data.time[1]
                 IN IF ~IsIso(dt_str)
                    THEN Failure(<<"Time parsing failed: ", "ValueError">>)
                    ELSE Success(FormatTime(dt_str, tz))

(***************************************************************************)
(*                    weatherAgent: one tool invocation                    *)
(***************************************************************************)
WeatherTools == {"geocode_city", "get_weather", "get_current_time"}

\* The tool is invoked: its first statement sends the geocoding request.
WCall(fn, city) ==
    /\ wpc = "idle"
    /\ wfn' = fn /\ wcity' = city
    /\ wpc' = "geocoding"
    /\ wreqs' = <<"geocoding">>
    /\ UNCHANGED <<wgeoresp, wresp, geo, wout>>
    /\ UNCHANGED <<rvars, nvars, pvars, cvars>>

\* A caller that goes on to its own service whatever geocode_city produced.
AfterGeocodeRegardless(fn, g) ==
    IF fn = "geocode_city" THEN "done"
    ELSE IF fn = "get_weather" THEN "forecast" ELSE "timeapi"

\* Where the invocation stands once geocode_city has produced g.
AfterGeocode(fn, g) ==
    IF fn = "geocode_city" \/ g.kind = "raise" \/ g.status # "success" THEN "done"
    ELSE IF fn = "get_weather" THEN "forecast" ELSE "timeapi"

\* The geocoding service answers; geocode_city finishes, and its caller
\* either returns or sends its own request.
WGeocodeResponds(resp) ==
    /\ wpc = "geocoding"
    /\ wgeoresp' = resp
    /\ LET g == GeocodeCity(wcity, resp) IN
        /\ geo' = g
        /\ wpc' = AfterGeocode(wfn, g)
        /\ wout' = IF wpc' # "done" THEN wout
                   ELSE IF wfn = "geocode_city" \/ g.kind = "raise" THEN g
                   ELSE GeoFailureResult(g)
        /\ wreqs' = IF wpc' = "done" THEN wreqs ELSE Append(wreqs, wpc')
    /\ UNCHANGED <<wfn, wcity, wresp>>
    /\ UNCHANGED <<rvars, nvars, pvars, cvars>>

WForecastResponds(resp) ==
    /\ wpc = "forecast"
    /\ wresp' = resp
    /\ wout' = WeatherResult(geo, resp)
    /\ wpc' = "done"
    /\ UNCHANGED <<wfn, wcity, wgeoresp, geo, wreqs>>
    /\ UNCHANGED <<rvars, nvars, pvars, cvars>>

WTimeResponds(resp) ==
    /\ wpc = "timeapi"
    /\ wresp' = resp
    /\ wout' = TimeResult(geo, resp)
    /\ wpc' = "done"
    /\ UNCHANGED <<wfn, wcity, wgeoresp, geo, wreqs>>
    /\ UNCHANGED <<rvars, nvars, pvars, cvars>>

\* The caller has the outcome; the next invocation starts from scratch.
WReturn ==
    /\ wpc = "done"
    /\ wpc' = "idle" /\ wfn' = "" /\ wcity' = ""
    /\ wgeoresp' = NoResp /\ wresp' = NoResp
    /\ geo' = NoOutcome /\ wreqs' = <<>> /\ wout' = NoOutcome
    /\ UNCHANGED <<rvars, nvars, pvars, cvars>>

WNext ==
    \/ \E fn \in WeatherTools, city \in CityNames : WCall(fn, city)
    \/ wpc = "geocoding" /\ \E resp \in GeoResponses : WGeocodeResponds(resp)
    \/ wpc = "forecast" /\ \E resp \in ForecastResponses : WForecastResponds(resp)
    \/ wpc = "timeapi" /\ \E resp \in TimeResponses : WTimeResponds(resp)
    \/ WReturn

(***************************************************************************)
(*                   recipeAgent: get_recipe_details                       *)
(***************************************************************************)
MaxQueryLen == 2
MaxRows == 2

\* Strings are sequences of characters; "%" and "_" are SQL wildcards.
Chars == {"a", "A", "b", "_", "%"}

Lower(c) == IF c = "A" THEN "a" ELSE IF c = "B" THEN "b" ELSE c

Rows ==
    {[title |-> <<"a", "b">>, ingredients |-> "flour", instructions |-> "mix"],
     [title |-> <<"A">>, ingredients |-> "eggs", instructions |-> "fry"],
     [title |-> <<"b">>, ingredients |-> "rice", instructions |-> "boil"]}

\* The recipes table in scan order, or a database that cannot be opened or queried.
Stores == [reachable : BOOLEAN, rows : SeqUpTo(Rows, MaxRows)]

Queries == SeqUpTo(Chars, MaxQueryLen)

\* SQLite's  s LIKE pat : "%" matches any run of characters, "_" exactly one,
\* any other character itself, ignoring ASCII case.
RECURSIVE Like(_, _)
Like(pat, s) ==
    IF pat = <<>> THEN s = <<>>
    ELSE IF Head(pat) = "%"
         THEN Like(Tail(pat), s) \/ (s # <<>> /\ Like(pat, Tail(s)))
         ELSE /\ s # <<>>
              /\ (Head(pat) = "_" \/ Lower(Head(pat)) = Lower(Head(s)))
              /\ Like(Tail(pat), Tail(s))

\* WHERE Title LIKE ?  bound to  f"%{dish_name}%"
TitleMatches(title, dish_name) == Like(<<"%">> \o dish_name \o <<"%">>, title)

RecipeFound(row) == [kind |-> "return", error |-> None, recipe |-> Some(row)]
RecipeError(msg) == [kind |-> "return", error |-> Some(msg), recipe |-> None]
NoRecipeOutcome == [kind |-> "none", error |-> None, recipe |-> None]

GetRecipeDetails(store, dish_name) ==
    IF ~store.reachable THEN RecipeError(<<"Database error: ", "OperationalError">>)
    ELSE LET hits == {i \in 1..Len(store.rows) : TitleMatches(store.rows[i].title, dish_name)}
         IN IF hits = {} THEN RecipeError(<<"Recipe not found in the local database.">>)
            ELSE \* cursor.fetchone(): the first row of the scan
                 RecipeFound(store.rows[CHOOSE i \in hits : \A j \in hits : i <= j])

RCall(dish_name) ==
    /\ rpc = "idle"
    /\ rquery' = dish_name
    /\ rout' = GetRecipeDetails(rstore, dish_name)
    /\ rpc' = "done"
    /\ UNCHANGED rstore
    /\ UNCHANGED <<wvars, nvars, pvars, cvars>>

RReturn ==
    /\ rpc = "done"
    /\ rpc' = "idle" /\ rquery' = <<>> /\ rout' = NoRecipeOutcome
    /\ UNCHANGED rstore
    /\ UNCHANGED <<wvars, nvars, pvars, cvars>>

RNext ==
    \/ \E q \in Queries : RCall(q)
    \/ RReturn

(***************************************************************************)
(*                   recipeAgent: get_nutrition_data                       *)
(***************************************************************************)
MaxProducts == 2

NutritionVersions == {2, 3, 4}
NutritionQueries == {"oats", "3017620422003"}

\* myRecipeAgent2 goes on to the product endpoint; 3 and 4 do not.
HasLookupStage(ver) == ver = 2
\* Only myRecipeAgent4 passes timeout= to requests.get.
HasTimeout(ver) == ver = 4

\* Open Food Facts product records; every key may be absent.  JSON values are
\* kept as their text.
Products ==
    {[product_name |-> Some("Oats"), nutriments |-> Some("{kcal:389}"),
      categories |-> Some("cereals"), ingredients_text |-> Some("oat flakes")],
     [product_name |-> Some("Nutella"), nutriments |-> Some("{kcal:539}"),
      categories |-> Some("spreads"), ingredients_text |-> Some("sugar, palm oil")],
     [product_name |-> Some("Oats"), nutriments |-> None,
      categories |-> Some("cereals"), ingredients_text |-> Some("oat flakes")],
     [product_name |-> None, nutriments |-> None,
      categories |-> None, ingredients_text |-> None]}

SearchBlank == [shape |-> "malformed", products |-> None]
SearchBodies ==
    {SearchBlank, [SearchBlank EXCEPT !.shape = "nondict"]}
    \cup [shape : {"dict"},
          products : {None} \cup {Some(ps) : ps \in SeqUpTo(Products, MaxProducts)}]

\* The status check comes before .json(), so an error status may carry any body.
SearchResponses ==
    {[transport |-> t, status |-> 0, body |-> SearchBlank] : t \in TransportErrors}
    \cup [transport : {"ok"}, status : HttpStatuses, body : SearchBodies]

LookupBlank == [shape |-> "malformed", status |-> None, product |-> None]
LookupBodies ==
    {LookupBlank, [LookupBlank EXCEPT !.shape = "nondict"]}
    \cup [shape : {"dict"},
          status : {None, Some(0), Some(1)},
          product : {None} \cup {Some(pr) : pr \in Products}]

LookupResponses == Responses(LookupBodies, LookupBlank)

NutritionFields(product) ==
    [product_name |-> Get(product.product_name, "N/A"),
     nutriments |-> Get(product.nutriments, "{}"),
     categories |-> Get(product.categories, "N/A"),
     ingredients_text |-> Get(product.ingredients_text, "N/A")]

NutritionFound(fields) == [kind |-> "return", error |-> None, data |-> Some(fields)]
NutritionError(msg) == [kind |-> "return", error |-> Some(msg), data |-> None]
NoNutritionOutcome == [kind |-> "none", error |-> None, data |-> None]

CouldNotRetrieve == NutritionError(<<"Could not retrieve nutritional data from the API.">>)
ApiError(e) == NutritionError(<<"API error: ", e>>)

\* The exception raised inside the try block while handling a response whose
\* status is 200 (.json() and .get are reached only then), "" if none.
BodyException(resp) ==
    IF resp.transport # "ok" THEN resp.transport
    ELSE IF resp.status # 200 THEN ""
    ELSE IF resp.body.shape = "malformed" THEN "JSONDecodeError"
    ELSE IF resp.body.shape = "nondict" THEN "AttributeError"
    ELSE ""

\* data.get("products") and len(data["products"]) > 0
SearchHit(resp) ==
    /\ BodyException(resp) = ""
    /\ resp.status = 200
    /\ Get(resp.body.products, <<>>) # <<>>

\* An adapter that takes the last candidate.
LastProduct(products) == products[Len(products)]

\* product = data["products"][0]
FirstProduct(products) == products[1]

\* What the search stage returns, when it returns.
SearchResult(resp) ==
    IF BodyException(resp) # "" THEN ApiError(BodyException(resp))
    ELSE NutritionFound(NutritionFields(FirstProduct(resp.body.products[1])))

\* The search stage neither returned a product nor raised.
SearchFallsThrough(resp) == BodyException(resp) = "" /\ ~SearchHit(resp)

\* Where control goes when the search stage falls through.
AfterSearchMiss(ver) == IF HasLookupStage(ver) THEN "lookup" ELSE "done"

LookupResult(resp) ==
    IF BodyException(resp) # "" THEN ApiError(BodyException(resp))
    ELSE IF resp.status = 200 /\ resp.body.status = Some(1)
         THEN IF resp.body.product = None THEN ApiError("KeyError")
              ELSE NutritionFound(NutritionFields(resp.body.product[1]))
         ELSE CouldNotRetrieve

NCall(ver, query) ==
    /\ npc = "idle"
    /\ nver' = ver /\ nquery' = query
    /\ npc' = "search"
    /\ nreqs' = <<[endpoint |-> "search", arg |-> query]>>
    /\ UNCHANGED <<nsearch, nlookup, nout>>
    /\ UNCHANGED <<wvars, rvars, pvars, cvars>>

NSearchResponds(resp) ==
    /\ npc = "search"
    /\ resp.transport = "Timeout" => HasTimeout(nver)
    /\ nsearch' = resp
    /\ IF SearchFallsThrough(resp)
       THEN /\ npc' = AfterSearchMiss(nver)
            /\ IF npc' = "lookup"
               THEN /\ nreqs' = Append(nreqs, [endpoint |-> "product", arg |-> nquery])
                    /\ nout' = nout
               ELSE /\ nreqs' = nreqs
                    /\ nout' = CouldNotRetrieve
       ELSE /\ npc' = "done"
            /\ nout' = SearchResult(resp)
            /\ nreqs' = nreqs
    /\ UNCHANGED <<nver, nquery, nlookup>>
    /\ UNCHANGED <<wvars, rvars, pvars, cvars>>

NLookupResponds(resp) ==
    /\ npc = "lookup"
    /\ resp.transport = "Timeout" => HasTimeout(nver)
    /\ nlookup' = resp
    /\ nout' = LookupResult(resp)
    /\ npc' = "done"
    /\ UNCHANGED <<nver, nquery, nsearch, nreqs>>
    /\ UNCHANGED <<wvars, rvars, pvars, cvars>>

\* The service never answers a request that was sent without a timeout:
\* requests.get blocks and get_nutrition_data does not return.
NServiceSilent ==
    /\ npc \in {"search", "lookup"}
    /\ ~HasTimeout(nver)
    /\ npc' = "hung"
    /\ UNCHANGED <<nver, nquery, nsearch, nlookup, nreqs, nout>>
    /\ UNCHANGED <<wvars, rvars, pvars, cvars>>

NReturn ==
    /\ npc = "done"
    /\ npc' = "idle" /\ nver' = 0 /\ nquery' = ""
    /\ nsearch' = NoResp /\ nlookup' = NoResp
    /\ nreqs' = <<>> /\ nout' = NoNutritionOutcome
    /\ UNCHANGED <<wvars, rvars, pvars, cvars>>

NNext ==
    \/ \E ver \in NutritionVersions, q \in NutritionQueries : NCall(ver, q)
    \/ npc = "search" /\ \E resp \in SearchResponses : NSearchResponds(resp)
    \/ npc = "lookup" /\ \E resp \in LookupResponses : NLookupResponds(resp)
    \/ NServiceSilent
    \/ NReturn

(***************************************************************************)
(*                  recipeAgent: FoodAssistantPipeline                     *)
(***************************************************************************)
MaxRuns == 2
MaxParts == 2

PipelineVersions == {3, 4}

\* A text is a sequence of words, so that joining texts is \o.  The model's
\* answer is opaque: the content of a final response event is a non-empty
\* list of parts, each holding some text.
Words == {"x", "y"}
PartLists == SeqUpTo({<<w>> : w \in Words}, MaxParts) \ {<<>>}

RECURSIVE JoinParts(_)
JoinParts(parts) ==
    IF parts = <<>> THEN <<>> ELSE Head(parts) \o JoinParts(Tail(parts))

Slots == {"recipe_result", "nutrition_result", "allergen_result", "final_response"}

\* The LlmAgent definitions: name, output_key and the {placeholders} of the
\* instruction.  The allergen instruction is read from a file at import time.
RecipeFinder ==
    [name |-> "RecipeFinderAgent", output_key |-> "recipe_result", reads |-> {}]
NutritionAnalyst ==
    [name |-> "NutritionAnalystAgent", output_key |-> "nutrition_result",
     reads |-> {"recipe_result"}]
AllergenAlternative(ver) ==
    [name |-> IF ver = 3 THEN "AllergenAlternative" ELSE "AllergenAlternativeAgent",
     output_key |-> "allergen_result", reads |-> {}]
FinalResponse ==
    [name |-> "FinalResponseAgent", output_key |-> "final_response",
     reads |-> {"recipe_result", "nutrition_result", "allergen_result"}]

\* A pipeline whose first two steps changed places.
SubAgentsSwapped(ver) ==
    <<NutritionAnalyst, RecipeFinder, AllergenAlternative(ver), FinalResponse>>

\* sub_agents of the SequentialAgent, in the order given
SubAgents(ver) ==
    <<RecipeFinder, NutritionAnalyst, AllergenAlternative(ver), FinalResponse>>

\* A step that stores its answer under the key of the step before it.
OutputKeyOfPrevious(ver, i) == SubAgents(ver)[IF i > 1 THEN i - 1 ELSE i].output_key

\* The slot step i writes: its LlmAgent's output_key
OutputKey(ver, i) == SubAgents(ver)[i].output_key

\* What a step's final response puts under its output_key: the text of the
\* whole response.
SavedOutput(parts) == JoinParts(parts)

EmptyState == [k \in Slots |-> None]

\* if ev.is_final_response(): final_text = ev.content.parts[0].text
NextFinalText(final_text, parts) == parts[1]

NoResult == [kind |-> "none", text |-> <<>>]

\* A caller that swallows the failure and hands back what it has.
ReturnPartialOnFailure(final_text) == [kind |-> "return", text |-> final_text]

\* An exception raised while iterating runner.run_async leaves
\* _call_agent_async and call_agent: final_text is dropped.
CallAgentOnFailure(final_text) == [kind |-> "raise", text |-> <<>>]

\* The submit handler: st.markdown(response_md) or st.error(...)
Render(ret) ==
    IF ret.kind = "return" THEN [kind |-> "markdown", text |-> ret.text]
    ELSE IF ret.kind = "raise" THEN [kind |-> "error", text |-> <<>>]
    ELSE NoResult

\* myRecipeAgent4 has call_agent and the Streamlit handler; myRecipeAgent3
\* only defines root_agent, and what runs it is outside the repository.
HasFrontEnd(ver) == ver = 4

\* A coordinator that runs the same sub-agent again.
SameStep(i) == i

\* The SequentialAgent goes through sub_agents in list order, one after another.
NextStep(i) == i + 1

\* A request arrives and a run starts on a new session: setup_session_and_runner
\* builds a new InMemorySessionService and creates the session in it.
PSubmit(ver) ==
    /\ ppc \in {"idle", "completed", "failed"}
    /\ pruns < MaxRuns
    /\ ppc' = "running" /\ pver' = ver /\ pidx' = 1 /\ pphase' = "ready"
    /\ pstate' = EmptyState
    /\ pstarted' = <<>> /\ pwrites' = <<>>
    /\ pfinal' = <<>> /\ pret' = NoResult /\ pui' = NoResult
    /\ pruns' = pruns + 1
    /\ UNCHANGED <<wvars, rvars, nvars, cvars>>

\* The SequentialAgent runs its next sub-agent.
PStepStart ==
    /\ ppc = "running" /\ pphase = "ready"
    /\ pphase' = "started"
    /\ pstarted' = Append(pstarted, SubAgents(pver)[pidx].name)
    /\ UNCHANGED <<ppc, pver, pidx, pstate, pwrites, pfinal, pret, pui, pruns>>
    /\ UNCHANGED <<wvars, rvars, nvars, cvars>>

\* The running step's model call ends with a final response: its text goes to
\* the step's output_key, the caller's loop sees the event, and the
\* SequentialAgent goes on to the next sub-agent or ends.
PStepSucceeds(parts) ==
    /\ ppc = "running" /\ pphase = "started"
    /\ pstate' = [pstate EXCEPT ![OutputKey(pver, pidx)] = Some(SavedOutput(parts))]
    /\ pwrites' = Append(pwrites, <<SubAgents(pver)[pidx].name, OutputKey(pver, pidx)>>)
    /\ pfinal' = IF HasFrontEnd(pver) THEN NextFinalText(pfinal, parts) ELSE pfinal
    /\ IF pidx < Len(SubAgents(pver))
       THEN /\ pidx' = NextStep(pidx) /\ pphase' = "ready"
            /\ UNCHANGED <<ppc, pret, pui>>
       ELSE /\ ppc' = "completed" /\ pphase' = "ready" /\ pidx' = pidx
            /\ pret' = IF HasFrontEnd(pver)
                       THEN [kind |-> "return", text |-> pfinal'] ELSE NoResult
            /\ pui' = Render(pret')
    /\ UNCHANGED <<pver, pstarted, pruns>>
    /\ UNCHANGED <<wvars, rvars, nvars, cvars>>

\* The running step's model call raises.
PStepFails ==
    /\ ppc = "running" /\ pphase = "started"
    /\ ppc' = "failed"
    /\ pret' = IF HasFrontEnd(pver) THEN CallAgentOnFailure(pfinal) ELSE NoResult
    /\ pui' = Render(pret')
    /\ UNCHANGED <<pver, pidx, pphase, pstate, pstarted, pwrites, pfinal, pruns>>
    /\ UNCHANGED <<wvars, rvars, nvars, cvars>>

PNext ==
    \/ \E ver \in PipelineVersions : PSubmit(ver)
    \/ PStepStart
    \/ \E parts \in PartLists : PStepSucceeds(parts)
    \/ PStepFails

(***************************************************************************)
(*      Several call_agent invocations in flight (myRecipeAgent4)          *)
(***************************************************************************)
MaxCalls == 2

\* (APP_NAME, USER_ID, SESSION_ID): the same for every invocation
SessionKey == <<"food_assistant_app", "streamlit_user", "streamlit_session">>
SessionKeys == {SessionKey}

\* InMemorySessionService(): a service holding no session
NoSessions == [k \in SessionKeys |-> None]

\* service.create_session(app_name, user_id, session_id): an empty state
CreateSession(service, key) == [service EXCEPT ![key] = Some(EmptyState)]

\* One module-level service used by every invocation.
SharedService(services) == 1

\* `service` in setup_session_and_runner: the object constructed by this call
LocalService(services) == Len(services)

\* The answers the steps give here: one part, one word.
ShortAnswers == {<<<<w>>>> : w \in Words}

SessionState(run) == csvcs[run.svc][run.key][1]

\* call_agent(query) up to the first step: setup_session_and_runner
CCall ==
    /\ Len(cruns) < MaxCalls
    /\ LET constructed == Append(csvcs, NoSessions)
           service == LocalService(constructed)
       IN /\ csvcs' = [constructed EXCEPT
                          ![service] = CreateSession(constructed[service], SessionKey)]
          /\ cruns' = Append(cruns, [svc |-> service, key |-> SessionKey,
                                     pc |-> "running", idx |-> 1, wrote |-> {}])
    /\ UNCHANGED <<wvars, rvars, nvars, pvars>>

\* The running step of invocation r answers; its text goes under its output_key
\* in the session of r's runner.
CStepSucceeds(r, parts) ==
    /\ r \in 1..Len(cruns)
    /\ cruns[r].pc = "running"
    /\ LET run == cruns[r]
           slot == OutputKey(4, run.idx)
           state == [SessionState(run) EXCEPT ![slot] = Some(SavedOutput(parts))]
       IN /\ csvcs' = [csvcs EXCEPT ![run.svc][run.key] = Some(state)]
          /\ cruns' = [cruns EXCEPT
                          ![r].wrote = run.wrote \cup {slot},
                          ![r].idx = IF run.idx < Len(SubAgents(4))
                                     THEN NextStep(run.idx) ELSE run.idx,
                          ![r].pc = IF run.idx < Len(SubAgents(4))
                                    THEN "running" ELSE "completed"]
    /\ UNCHANGED <<wvars, rvars, nvars, pvars>>

\* The running step of invocation r raises; the invocation ends.
CStepFails(r) ==
    /\ r \in 1..Len(cruns)
    /\ cruns[r].pc = "running"
    /\ cruns' = [cruns EXCEPT ![r].pc = "failed"]
    /\ UNCHANGED csvcs
    /\ UNCHANGED <<wvars, rvars, nvars, pvars>>

CNext ==
    \/ CCall
    \/ \E r \in 1..MaxCalls, parts \in ShortAnswers : CStepSucceeds(r, parts)
    \/ \E r \in 1..MaxCalls : CStepFails(r)

(***************************************************************************)
(*                            Specifications                               *)
(***************************************************************************)
\* No tool has been invoked yet; the other components stay idle.
InitWeather ==
    /\ wpc = "idle" /\ wfn = "" /\ wcity = ""
    /\ wgeoresp = NoResp /\ wresp = NoResp
    /\ geo = NoOutcome /\ wreqs = <<>> /\ wout = NoOutcome
    /\ rpc = "idle" /\ rstore = [reachable |-> TRUE, rows |-> <<>>] /\ rquery = <<>> /\ rout = NoRecipeOutcome
    /\ npc = "idle" /\ nver = 0 /\ nquery = ""
    /\ nsearch = NoResp /\ nlookup = NoResp
    /\ nreqs = <<>> /\ nout = NoNutritionOutcome
    /\ ppc = "idle" /\ pver = 0 /\ pidx = 0 /\ pphase = "ready"
    /\ pstate = EmptyState /\ pstarted = <<>> /\ pwrites = <<>>
    /\ pfinal = <<>> /\ pret = NoResult /\ pui = NoResult /\ pruns = 0
    /\ csvcs = <<>> /\ cruns = <<>>

SpecWeather == InitWeather /\ [][WNext]_vars

\* The database is in any of its states; nothing has been asked yet; the other components stay idle.
InitRecipe ==
    /\ wpc = "idle" /\ wfn = "" /\ wcity = ""
    /\ wgeoresp = NoResp /\ wresp = NoResp
    /\ geo = NoOutcome /\ wreqs = <<>> /\ wout = NoOutcome
    /\ rpc = "idle" /\ rstore \in Stores /\ rquery = <<>> /\ rout = NoRecipeOutcome
    /\ npc = "idle" /\ nver = 0 /\ nquery = ""
    /\ nsearch = NoResp /\ nlookup = NoResp
    /\ nreqs = <<>> /\ nout = NoNutritionOutcome
    /\ ppc = "idle" /\ pver = 0 /\ pidx = 0 /\ pphase = "ready"
    /\ pstate = EmptyState /\ pstarted = <<>> /\ pwrites = <<>>
    /\ pfinal = <<>> /\ pret = NoResult /\ pui = NoResult /\ pruns = 0
    /\ csvcs = <<>> /\ cruns = <<>>

SpecRecipe == InitRecipe /\ [][RNext]_vars

\* No tool has been invoked yet; the other components stay idle.
InitNutrition ==
    /\ wpc = "idle" /\ wfn = "" /\ wcity = ""
    /\ wgeoresp = NoResp /\ wresp = NoResp
    /\ geo = NoOutcome /\ wreqs = <<>> /\ wout = NoOutcome
    /\ rpc = "idle" /\ rstore = [reachable |-> TRUE, rows |-> <<>>] /\ rquery = <<>> /\ rout = NoRecipeOutcome
    /\ npc = "idle" /\ nver = 0 /\ nquery = ""
    /\ nsearch = NoResp /\ nlookup = NoResp
    /\ nreqs = <<>> /\ nout = NoNutritionOutcome
    /\ ppc = "idle" /\ pver = 0 /\ pidx = 0 /\ pphase = "ready"
    /\ pstate = EmptyState /\ pstarted = <<>> /\ pwrites = <<>>
    /\ pfinal = <<>> /\ pret = NoResult /\ pui = NoResult /\ pruns = 0
    /\ csvcs = <<>> /\ cruns = <<>>

SpecNutrition == InitNutrition /\ [][NNext]_vars

\* No request has been submitted yet; the other components stay idle.
InitPipeline ==
    /\ wpc = "idle" /\ wfn = "" /\ wcity = ""
    /\ wgeoresp = NoResp /\ wresp = NoResp
    /\ geo = NoOutcome /\ wreqs = <<>> /\ wout = NoOutcome
    /\ rpc = "idle" /\ rstore = [reachable |-> TRUE, rows |-> <<>>] /\ rquery = <<>> /\ rout = NoRecipeOutcome
    /\ npc = "idle" /\ nver = 0 /\ nquery = ""
    /\ nsearch = NoResp /\ nlookup = NoResp
    /\ nreqs = <<>> /\ nout = NoNutritionOutcome
    /\ ppc = "idle" /\ pver = 0 /\ pidx = 0 /\ pphase = "ready"
    /\ pstate = EmptyState /\ pstarted = <<>> /\ pwrites = <<>>
    /\ pfinal = <<>> /\ pret = NoResult /\ pui = NoResult /\ pruns = 0
    /\ csvcs = <<>> /\ cruns = <<>>

SpecPipeline == InitPipeline /\ [][PNext]_vars

\* No front-end request has been made yet.
InitConcurrent ==
    /\ wpc = "idle" /\ wfn = "" /\ wcity = ""
    /\ wgeoresp = NoResp /\ wresp = NoResp
    /\ geo = NoOutcome /\ wreqs = <<>> /\ wout = NoOutcome
    /\ rpc = "idle" /\ rstore = [reachable |-> TRUE, rows |-> <<>>] /\ rquery = <<>> /\ rout = NoRecipeOutcome
    /\ npc = "idle" /\ nver = 0 /\ nquery = ""
    /\ nsearch = NoResp /\ nlookup = NoResp
    /\ nreqs = <<>> /\ nout = NoNutritionOutcome
    /\ ppc = "idle" /\ pver = 0 /\ pidx = 0 /\ pphase = "ready"
    /\ pstate = EmptyState /\ pstarted = <<>> /\ pwrites = <<>>
    /\ pfinal = <<>> /\ pret = NoResult /\ pui = NoResult /\ pruns = 0
    /\ csvcs = <<>> /\ cruns = <<>>

SpecConcurrent == InitConcurrent /\ [][CNext]_vars

(***************************************************************************)
(*                     Properties of the pipeline                          *)
(***************************************************************************)
Started(name) == \E i \in 1..Len(pstarted) : pstarted[i] = name
Present(slot) == pstate[slot] # None
WrittenInRun(slot) == \E i \in 1..Len(pwrites) : pwrites[i][2] = slot

\* C1: the nutrition step is started only once recipe_result is in the
\* session state, and the formatting step only once recipe_result,
\* nutrition_result and allergen_result are all in it.
C1_PipelineOrdering ==
    ppc = "running" =>
        /\ Started("NutritionAnalystAgent") => Present("recipe_result")
        /\ Started("FinalResponseAgent") =>
              /\ Present("recipe_result")
              /\ Present("nutrition_result")
              /\ Present("allergen_result")

\* The formatting step has been started and is at work.
C1_Witness ==
    /\ ppc = "running" /\ pphase = "started"
    /\ Started("FinalResponseAgent")
    /\ Present("allergen_result")

\* The run failed in step 2.
FailedInNutrition ==
    /\ ppc = "failed"
    /\ pstarted # <<>>
    /\ pstarted[Len(pstarted)] = "NutritionAnalystAgent"

\* C2: when the nutrition step fails, the run writes neither allergen_result
\* nor final_response, starts no later step, and call_agent raises, so that
\* the front end shows the error and not the recipe step's text.
C2_FailureShortCircuit ==
    FailedInNutrition =>
        /\ ~WrittenInRun("allergen_result") /\ ~WrittenInRun("final_response")
        /\ ~Present("allergen_result") /\ ~Present("final_response")
        /\ pstarted = <<"RecipeFinderAgent", "NutritionAnalystAgent">>
        /\ HasFrontEnd(pver) => pret.kind = "raise" /\ pui.kind = "error"

\* The front end's run failed in step 2 after the recipe step had answered.
C2_Witness ==
    /\ FailedInNutrition /\ HasFrontEnd(pver)
    /\ Present("recipe_result") /\ pfinal # <<>>
    /\ pui.kind = "error"

\* C3: when all four steps succeed, call_agent returns the value which the
\* last step wrote to final_response.
C3_ReturnsFinalSlot ==
    (ppc = "completed" /\ HasFrontEnd(pver)) =>
        /\ pret.kind = "return"
        /\ pret.text = pstate["final_response"][1]

DesignatedWrites ==
    {<<"RecipeFinderAgent", "recipe_result">>,
     <<"NutritionAnalystAgent", "nutrition_result">>,
     <<"AllergenAlternative", "allergen_result">>,
     <<"AllergenAlternativeAgent", "allergen_result">>,
     <<"FinalResponseAgent", "final_response">>}

WritesOf(name) == {i \in 1..Len(pwrites) : pwrites[i][1] = name}

\* The number of steps of the run that have finished.
StepsFinished == IF ppc = "completed" THEN Len(pstarted) ELSE
                 IF pphase = "started" THEN Len(pstarted) - 1 ELSE Len(pstarted)

\* C10: in a run every slot is written at most once and by its designated
\* step only, and every step that finished wrote exactly one slot.
C10_WriteOnce ==
    /\ \A i \in 1..Len(pwrites) : pwrites[i] \in DesignatedWrites
    /\ \A i, j \in 1..Len(pwrites) : pwrites[i][2] = pwrites[j][2] => i = j
    /\ \A k \in 1..Len(pstarted) :
          Cardinality(WritesOf(pstarted[k])) = IF k <= StepsFinished THEN 1 ELSE 0

\* All four steps have written.
C10_Witness == ppc = "completed" /\ Len(pwrites) = 4 /\ \A k \in Slots : Present(k)

\* What one step of a run may do to the coordinator.
CoordinatorStep ==
    /\ pruns' # pruns =>
          \* NotStarted -> Running(first step), on a fresh run
          /\ ppc \in {"idle", "completed", "failed"}
          /\ ppc' = "running" /\ pidx' = 1 /\ pphase' = "ready"
          /\ pstarted' = <<>> /\ pwrites' = <<>>
    /\ pruns' = pruns =>
          \* Completed and Failed are terminal
          /\ ppc \in {"completed", "failed"} =>
                UNCHANGED <<ppc, pidx, pphase, pstate, pstarted, pwrites>>
          \* the index moves by one, when the running step has written its slot
          /\ pidx' # pidx =>
                /\ ppc = "running" /\ pphase = "started"
                /\ pidx' = pidx + 1 /\ pidx' <= 4
                /\ Len(pwrites') = Len(pwrites) + 1
                /\ pwrites'[Len(pwrites')][1] = pstarted[Len(pstarted)]
                /\ pstate'[pwrites'[Len(pwrites')][2]] # None
          \* a step starts once, after the writes of all steps before it
          /\ pstarted' # pstarted =>
                /\ ppc = "running" /\ pphase = "ready" /\ pphase' = "started"
                /\ Len(pstarted') = Len(pstarted) + 1
                /\ Len(pstarted) = pidx - 1 /\ Len(pwrites) = pidx - 1
                /\ \A i \in 1..Len(pstarted) : pstarted'[i] = pstarted[i]
                /\ \A i \in 1..Len(pstarted) : pstarted'[Len(pstarted')] # pstarted[i]
          \* Running(last) -> Completed, on the last step writing its slot
          /\ (ppc' = "completed" /\ ppc # "completed") =>
                /\ ppc = "running" /\ pphase = "started" /\ pidx = 4
                /\ Len(pwrites) = 3 /\ Len(pwrites') = 4
          \* Running(i) -> Failed, on the running step failing; nothing is written
          /\ (ppc' = "failed" /\ ppc # "failed") =>
                /\ ppc = "running" /\ pphase = "started"
                /\ pwrites' = pwrites /\ pstate' = pstate /\ pidx' = pidx
          /\ pwrites' # pwrites => ppc = "running" /\ pphase = "started"

\* C11: a run goes NotStarted -> Running(0) -> ... -> Running(last) ->
\* Completed, or Running(i) -> Failed; the step index moves by exactly one and
\* only when the running step succeeded, no step is run twice or skipped, a
\* step starts only after the slot writes of the steps before it, and nothing
\* runs or is written once the run is Completed or Failed.
C11_CoordinatorStateMachine == [][CoordinatorStep]_vars

\* A second run failed in its third step, after an earlier run had ended.
C11_Witness ==
    /\ pruns = 2 /\ ppc = "failed" /\ pidx = 3
    /\ Len(pstarted) = 3 /\ Len(pwrites) = 2

(***************************************************************************)
(*                   Properties of the weather agent                       *)
(***************************************************************************)
\* C4: geocode_city, get_weather and get_current_time always return a
\* dictionary tagged success or error (with an error_message); no exception
\* leaves them.
C4_NeverRaises ==
    wpc = "done" =>
        /\ wout.kind = "return"
        /\ wout.status \in {"success", "error"}
        /\ wout.status = "error" => wout.error_message # <<>>

\* The forecast service answered get_weather with a JSON object that has a
\* temperature.
ForecastRead ==
    /\ wpc = "done" /\ wfn = "get_weather"
    /\ HttpFailure(wresp) = "" /\ wresp.body.shape = "dict"
    /\ Get(wresp.body.current_weather, EmptyCw).temperature # None

\* C8: for every forecast that is read, a report is returned whose humidity
\* is the hourly value at the index of the current timestamp when the hourly
\* time series holds it, the hourly value at index 0 when it does not and
\* there are hourly values, and unknown when there are none.
C8_HumiditySelection ==
    ForecastRead =>
        LET hourly == Get(wresp.body.hourly, EmptyHourly)
            times == hourly.time
            hums == hourly.relativehumidity_2m
            tnow == Get(wresp.body.current_weather, EmptyCw).time
        IN /\ wout.kind = "return" /\ wout.status = "success"
           /\ LET h == wout.payload[1].humidity IN
              IF InTimes(tnow, times)
              THEN /\ IndexOf(tnow, times) <= Len(hums)
                   /\ h = Some(hums[IndexOf(tnow, times)])
              ELSE IF hums # <<>> THEN h = Some(hums[1])
              ELSE h = None

\* The geocoding service answered with a JSON object whose results list is
\* empty or missing.
GeocodeFoundNothing ==
    /\ wpc = "done"
    /\ HttpFailure(wgeoresp) = "" /\ wgeoresp.body.shape = "dict"
    /\ Get(wgeoresp.body.results, <<>>) = <<>>

Mentions(msg, name) == \E i \in 1..Len(msg) : msg[i] = name

\* C9: when the geocoding service finds nothing, geocode_city returns an
\* error whose message names the city asked for, and get_weather and
\* get_current_time return an error with that very message.
C9_NotFoundPassThrough ==
    GeocodeFoundNothing =>
        /\ geo.kind = "return" /\ geo.status = "error"
        /\ Mentions(geo.error_message, wcity)
        /\ wout.kind = "return" /\ wout.status = "error"
        /\ wout.error_message = geo.error_message
        /\ wout.payload = <<>>
        /\ wreqs = <<"geocoding">>

\* get_weather was asked for a city that the geocoding service does not know.
C9_Witness ==
    /\ GeocodeFoundNothing /\ wfn = "get_weather"
    /\ wcity = "Nonexistent City XYZ"
    /\ wgeoresp.body.results = Some(<<>>)
    /\ wout.error_message = <<"City '", "Nonexistent City XYZ", "' not found.">>

\* get_current_time got an answer from the time service.
TimeServiceAnswered ==
    /\ wpc = "done" /\ wfn = "get_current_time"
    /\ geo.kind = "return" /\ geo.status = "success"
    /\ Len(wreqs) = 2

\* The time-service call failed in transport: no response, or an error status.
TimeTransportFailed == wresp.transport # "ok" \/ wresp.status # 200

\* A timestamp in ISO form can be taken from the answer's body.
TimestampParses ==
    /\ wresp.body.shape = "dict"
    /\ LET b == wresp.body IN
         IF b.dateTime # None /\ b.dateTime[1] # <<>>
         THEN IsIso(b.dateTime[1])
         ELSE /\ b.date # None /\ b.time # None
              /\ IsIso(b.date[1] \o <<"T">> \o b.time[1])

\* C14: in get_current_time after a successful geocoding, a transport failure
\* of the time-service call gives an error whose message starts "Time lookup
\* failed", a failure to parse the returned timestamp gives an error whose
\* message starts "Time parsing failed", and otherwise the outcome is a success
\* whose report reads <date> <time> (<timezone>).
C14_StageMessages ==
    TimeServiceAnswered =>
        /\ wout.kind = "return"
        /\ IF TimeTransportFailed
           THEN wout.status = "error" /\ wout.error_message[1] = "Time lookup failed: "
           ELSE IF ~TimestampParses
           THEN wout.status = "error" /\ wout.error_message[1] = "Time parsing failed: "
           ELSE /\ wout.status = "success"
                /\ LET report == wout.payload[1] IN
                     /\ Len(report) = 6
                     /\ report[1] \in ValidDates /\ report[2] = " "
                     /\ report[3] \in ValidTimes \cup {"00:00:00"}
                     /\ report[4] = " (" /\ report[6] = ")"
                     /\ report[5] = Get(geo.payload[1].timezone, "None")

\* C15: in an invocation of get_weather or get_current_time the first
\* outbound request is the geocoding request, the forecast or time service is
\* contacted only once geocoding has returned a success outcome, and at most
\* two requests are issued.
C15_RequestOrder ==
    (wpc # "idle" /\ wfn \in {"get_weather", "get_current_time"}) =>
        /\ Len(wreqs) \in 1..2
        /\ wreqs[1] = "geocoding"
        /\ wpc = "geocoding" => Len(wreqs) = 1
        /\ Len(wreqs) = 2 =>
              /\ wgeoresp # NoResp
              /\ geo.kind = "return" /\ geo.status = "success"
              /\ wreqs[2] = IF wfn = "get_weather" THEN "forecast" ELSE "timeapi"
        /\ (geo.kind # "none" /\ ~(geo.kind = "return" /\ geo.status = "success")) =>
              wreqs = <<"geocoding">>

\* get_current_time finished after asking the geocoding service and then the
\* time service.
C15_Witness ==
    /\ wpc = "done" /\ wfn = "get_current_time"
    /\ wreqs = <<"geocoding", "timeapi">>
    /\ wresp.transport = "ok" /\ wout.status = "success"

(***************************************************************************)
(*                  Properties of the recipe adapter                       *)
(***************************************************************************)
\* The title contains the query, ignoring case.
Contains(title, q) ==
    \E off \in 0..(Len(title) - Len(q)) :
        \A k \in 1..Len(q) : Lower(title[off + k]) = Lower(q[k])

Containing(store, q) == {i \in 1..Len(store.rows) : Contains(store.rows[i].title, q)}

\* C5: get_recipe_details never raises; it returns an error record when the
\* store cannot be used or no title contains the query, and otherwise the
\* first record whose title contains the query.
C5_RecipeLookup ==
    rpc = "done" =>
        /\ rout.kind = "return"
        /\ IF ~rstore.reachable \/ Containing(rstore, rquery) = {}
           THEN rout.error # None /\ rout.recipe = None
           ELSE /\ rout.error = None
                /\ rout.recipe = Some(rstore.rows[
                      CHOOSE i \in Containing(rstore, rquery) :
                          \A j \in Containing(rstore, rquery) : i <= j])

(***************************************************************************)
(*                 Properties of the nutrition adapter                     *)
(***************************************************************************)
\* The record the claim expects for a product, given the value that stands
\* for an absent nutrient map.
ExpectedFields(product, noNutriments) ==
    [product_name |-> IF product.product_name = None THEN "N/A" ELSE product.product_name[1],
     nutriments |-> IF product.nutriments = None THEN noNutriments ELSE product.nutriments[1],
     categories |-> IF product.categories = None THEN "N/A" ELSE product.categories[1],
     ingredients_text |-> IF product.ingredients_text = None THEN "N/A"
                          ELSE product.ingredients_text[1]]

SearchGaveCandidates == npc = "done" /\ SearchHit(nsearch)

C7_LookupBeforeFailure ==
    (npc = "done" /\ nout.error # None) =>
        /\ Len(nreqs) = 2
        /\ nreqs[1] = [endpoint |-> "search", arg |-> nquery]
        /\ nreqs[2] = [endpoint |-> "product", arg |-> nquery]

\* C12: every outbound call of the nutrition adapter carries a bounded
\* timeout, so an invocation whose service never responds is not left blocked:
\* a request in flight has a timeout and no invocation is hung.
C12_BoundedTimeouts ==
    /\ npc \in {"search", "lookup"} => HasTimeout(nver)
    /\ npc # "hung"

(***************************************************************************)
(*               Properties of invocations running side by side            *)
(***************************************************************************)
SlotsPresent(state) == {k \in Slots : state[k] # None}

\* C13: every call_agent invocation runs on a state constructed for it: no two
\* invocations, one after the other or overlapping, use the same session
\* service instance although all use the same (app, user, session) key, an
\* invocation's state starts empty, and it holds the slots this invocation
\* wrote and no others.
C13_FreshStatePerRun ==
    \A a \in 1..Len(cruns) :
        /\ cruns[a].svc \in 1..Len(csvcs)
        /\ cruns[a].key = SessionKey
        /\ csvcs[cruns[a].svc][cruns[a].key] # None
        /\ \A b \in 1..Len(cruns) : a # b => cruns[a].svc # cruns[b].svc
        /\ SlotsPresent(SessionState(cruns[a])) = cruns[a].wrote
        /\ (cruns[a].pc = "running" /\ cruns[a].idx = 1) =>
              SessionState(cruns[a]) = EmptyState

\* Two invocations overlap, both have written their recipe slot, and the two
\* states hold different text in it.
C13_Witness ==
    /\ Len(cruns) = 2
    /\ cruns[1].pc = "running" /\ cruns[2].pc = "running"
    /\ cruns[1].idx = 3 /\ cruns[2].idx = 2
    /\ SessionState(cruns[1])["recipe_result"] # SessionState(cruns[2])["recipe_result"]

=============================================================================
